---- MODULE Spec2Model ----
(***************************************************************************)
(* A model of graphkey: the colouring (ordered partition) of src/coloring.rs *)
(* with its refinement, and the key search of src/lib.rs.                    *)
(*                                                                           *)
(* Graphs are simple and undirected: a node count n (nodes 0..n-1) and a set *)
(* e of two-element node sets.  The Rc<RefCell<Cell>> handles of a Colouring *)
(* are modelled as cell ids into a store: cells, color_cell and node_cell    *)
(* hold ids, and the store maps an id to the Cell it points to.              *)
(* Sequences are 1-based here and 0-based in the source: cell index k of the *)
(* source is position k+1 of cells.                                          *)
(***************************************************************************)
EXTENDS Integers, Sequences, FiniteSets, TLC

\* Largest node count of the graphs the partition operations are run on.
MaxN == 4

VARIABLES
    graph,            \* the graph the colouring belongs to
    colouring,        \* the Colouring
    pc,               \* "idle" between calls, "refine" inside refine, "aborted" after a panic
    uncounted_colors, \* refine: the heap of colours still to study
    cur_trace,        \* refine: the trace built so far
    split_log,        \* refine: what each split pushed on the heap and on the trace
    refine_err,       \* refine: "" or the diagnostic of the panic that stopped it
    lastop,           \* the call that is running or, when idle, the last call made
    ret               \* what the last call returned (<<>> while a call is running)

\* GraphKey::new, run on each graph of a scenario in turn
VARIABLES
    scn,              \* the scenario: its kind and the graphs gs to key
    krun,             \* the index in scn.gs of the graph being keyed
    keys,             \* the outcomes of the finished calls
    kpc,              \* the position in GraphKey::new
    next_list,
    current_list,     \* the nodes of current_list the for loop has not yet taken
    best_k_dim,
    leaf_found,
    cur_node,         \* node, the entry of current_list being processed (<<>> outside the for loop)
    level,            \* how many times the body of the while loop was entered
    branches          \* the children met in this level: their colouring and Kdim

\* compute_descriptor, applied to two relabelled graphs
VARIABLES
    dpc,              \* "input", "labelled", "described"
    dgraphs,          \* the two graphs
    dparts,           \* a discrete colouring of each
    dlabelled,        \* compute_graph_from_discrete of each
    ddescs            \* compute_descriptor of each

\* the comparisons of Kdim, applied to three Kdims
VARIABLES
    opc,              \* "input", "compared"
    okdims,           \* the three Kdims
    ocmp              \* what cmp and eq returned for them

\* a Colouring and its clone, their cells in one memory
VARIABLES
    cpc,              \* "new" before clone() is called, "cloned" after, "aborted" after a panic
    cop,              \* the last call made and the Colouring it was made on
    cgraph,           \* the graph
    heap,             \* the memory: the Cell each Rc points to
    orig,             \* the Colouring that is cloned: its fields, the Rc's as keys of heap
    copy              \* what clone() returned, <<>> before the call

pvars == <<graph, colouring, pc, uncounted_colors, cur_trace, split_log, refine_err,
           lastop, ret>>

kvars == <<scn, krun, keys, kpc, next_list, current_list, best_k_dim, leaf_found,
           cur_node, level, branches>>

dvars == <<dpc, dgraphs, dparts, dlabelled, ddescs>>

ovars == <<opc, okdims, ocmp>>

cvars == <<cpc, cop, cgraph, heap, orig, copy>>

vars == <<pvars, kvars, dvars, ovars, cvars>>

----------------------------------------------------------------------------
(* Generic helpers *)

Range(q) == {q[i] : i \in DOMAIN q}

Min(S) == CHOOSE x \in S : \A y \in S : x <= y

\* slice::sort on a sequence of distinct integers: ascending order.
SortAsc(q) ==
    LET S == Range(q)
    IN  [i \in 1..Len(q) |-> CHOOSE x \in S : Cardinality({y \in S : y < x}) = i - 1]

\* sort_by(|a, b| b.cmp(a)) on a sequence of distinct integers: descending order.
SortDesc(q) ==
    LET S == Range(q)
    IN  [i \in 1..Len(q) |-> CHOOSE x \in S : Cardinality({y \in S : y > x}) = i - 1]

\* Vec::push(x) instead of Vec::insert(idx, x): x goes to the end.
InsertAtEnd(q, idx, x) == Append(q, x)

\* Vec::insert(idx, x) with the source's 0-based idx.
InsertAt(q, idx, x) == SubSeq(q, 1, idx) \o <<x>> \o SubSeq(q, idx + 1, Len(q))

\* The bijections of 0..n-1 onto itself.
Perms(n) == {p \in [0..(n-1) -> 0..(n-1)] : \A i, j \in 0..(n-1) : p[i] = p[j] => i = j}

\* The order in which a hash container (HashSet, HashMap keys) of integers
\* yields its elements is not fixed by the program: ord ranks the values, and
\* the container yields them by increasing rank.
\* The orders tried are the rotations of the ascending and of the descending
\* order of 0..n.
Orders(n) ==
    {[x \in 0..n |-> (x + b) % (n + 1)] : b \in 0..n}
        \cup {[x \in 0..n |-> (n - x + b) % (n + 1)] : b \in 0..n}

IdOrder(n) == [i \in 0..n |-> i]

HashIter(S, ord) ==
    [i \in 1..Cardinality(S) |->
        CHOOSE x \in S : Cardinality({y \in S : ord[y] < ord[x]}) = i - 1]

----------------------------------------------------------------------------
(* Graphs: petgraph's UnGraph, seen through node_count, neighbors, edges *)

Nodes(g) == 0..(g.n - 1)

Pairs(n) == {{u, v} : u, v \in 0..(n-1)} \ {{u} : u \in 0..(n-1)}

AllGraphs(n) == {[n |-> n, e |-> E] : E \in SUBSET Pairs(n)}

Neighbors(g, u) == {v \in Nodes(g) : {u, v} \in g.e}

\* generate_permutated_graph: every edge (u, v) becomes (perm[u], perm[v]).
PermGraph(g, p) == [n |-> g.n, e |-> {{p[x] : x \in ed} : ed \in g.e}]

----------------------------------------------------------------------------
(* Colouring *)

\* Rc::new: a handle no live handle of the colouring equals.
FreshId(c) == Cardinality(DOMAIN c.store)

CellAt(c, idx) == c.store[c.cells[idx + 1]]

ColouringNew(g) ==
    [size       |-> g.n,
     cells      |-> <<0>>,
     store      |-> (0 :> [color |-> 0, members |-> Nodes(g)]),
     color_cell |-> (0 :> 0),
     node_cell  |-> [i \in Nodes(g) |-> 0],
     node_color |-> [i \in Nodes(g) |-> 0]]

\* A program sees a handle only through the cell it points to: two
\* colourings that differ in the names of their handles are the same colouring.
\* Normalize names every handle by the position in cells of the cell it points
\* to (every handle a colouring holds is also held by cells).
Normalize(c) ==
    LET pos(id) == (CHOOSE i \in 1..Len(c.cells) : c.cells[i] = id) - 1
    IN  [size       |-> c.size,
         cells      |-> [i \in 1..Len(c.cells) |-> i - 1],
         store      |-> [i \in 0..(Len(c.cells) - 1) |-> c.store[c.cells[i + 1]]],
         color_cell |-> [k \in DOMAIN c.color_cell |-> pos(c.color_cell[k])],
         node_cell  |-> [u \in DOMAIN c.node_cell |-> pos(c.node_cell[u])],
         node_color |-> c.node_color]

IsDiscrete(c) == Len(c.cells) = c.size

GetCellCount(c) == Len(c.cells)

\* get_cell_members: the members in the container's order.
GetCellMembers(c, idx, ord) == HashIter(CellAt(c, idx).members, ord)

\* clone: the i-th new cell copies the i-th cell; the maps are rebuilt from the
\* copies.  ok is FALSE when the unwrap of line 94 fails (a node in no cell).
Clone(c) ==
    LET n == Len(c.cells)
        newStore == [i \in 0..(n-1) |-> CellAt(c, i)]
        covered == UNION {newStore[i].members : i \in 0..(n-1)}
        \* later cells overwrite earlier ones in the maps
        lastOf(k) == CHOOSE i \in 0..(n-1) :
                        /\ k \in newStore[i].members
                        /\ \A j \in 0..(n-1) : k \in newStore[j].members => j <= i
        lastCol(col) == CHOOSE i \in 0..(n-1) :
                        /\ newStore[i].color = col
                        /\ \A j \in 0..(n-1) : newStore[j].color = col => j <= i
        inSize == {k \in covered : k \in 0..(c.size - 1)}
    IN  [ok |-> \A k \in 0..(c.size - 1) : k \in covered,
         c  |-> [size       |-> c.size,
                 cells      |-> [i \in 1..n |-> i - 1],
                 store      |-> newStore,
                 color_cell |-> [col \in {newStore[i].color : i \in 0..(n-1)} |-> lastCol(col)],
                 node_cell  |-> [k \in 0..(c.size - 1) |->
                                    IF k \in covered THEN lastOf(k) ELSE 0],
                 node_color |-> [k \in 0..(c.size - 1) |->
                                    IF k \in inSize THEN newStore[lastOf(k)].color ELSE 0]]]

\* EditColorCell without the move of lines 208-210 (252-254): the entry of
\* old_color is overwritten and the old cell gets no entry for its new colour.
EditColorCellNoMove(cc, old_color, moved_color, new_id) ==
    [k \in (DOMAIN cc) \cup {old_color} |-> IF k = old_color THEN new_id ELSE cc[k]]

\* The lines "Edit self.cell_color" of individualize and split_cell: the entry
\* of old_color, if any, moves to moved_color; then old_color maps to the new cell.
EditColorCell(cc, old_color, moved_color, new_id) ==
    LET removed == [k \in (DOMAIN cc) \ {old_color} |-> cc[k]]
        moved   == IF old_color \in DOMAIN cc
                   THEN [k \in (DOMAIN removed) \cup {moved_color} |->
                            IF k = moved_color THEN cc[old_color] ELSE removed[k]]
                   ELSE cc
    IN  [k \in (DOMAIN moved) \cup {old_color} |->
            IF k = old_color THEN new_id ELSE moved[k]]

\* SplitCell with the colour of the old cell raised by one, as individualize
\* does, whatever the size of new_members.
SplitCellShiftsByOne(c, cell_idx, new_members) ==
    LET old_id    == c.cells[cell_idx + 1]
        old_color == c.store[old_id].color
        new_color == old_color + 1
        new_id    == FreshId(c)
        new_cell  == [color |-> old_color, members |-> Range(new_members)]
        rest      == c.store[old_id].members \ Range(new_members)
    IN  [size       |-> c.size,
         cells      |-> InsertAt(c.cells, cell_idx, new_id),
         store      |-> [i \in (DOMAIN c.store) \cup {new_id} |->
                            IF i = new_id THEN new_cell
                            ELSE IF i = old_id THEN [color |-> new_color, members |-> rest]
                            ELSE c.store[i]],
         color_cell |-> EditColorCell(c.color_cell, old_color, new_color, new_id),
         node_cell  |-> [u \in DOMAIN c.node_cell |->
                            IF u \in Range(new_members) THEN new_id ELSE c.node_cell[u]],
         node_color |-> [u \in DOMAIN c.node_color |->
                            IF u \in rest THEN new_color ELSE c.node_color[u]]]

\* SplitCell without lines 237-239: the old cell keeps the members it gives away.
SplitCellKeepsMembers(c, cell_idx, new_members) ==
    LET old_id    == c.cells[cell_idx + 1]
        old_color == c.store[old_id].color
        new_color == old_color + Len(new_members)
        new_id    == FreshId(c)
        new_cell  == [color |-> old_color, members |-> Range(new_members)]
        rest      == c.store[old_id].members
    IN  [size       |-> c.size,
         cells      |-> InsertAt(c.cells, cell_idx, new_id),
         store      |-> [i \in (DOMAIN c.store) \cup {new_id} |->
                            IF i = new_id THEN new_cell
                            ELSE IF i = old_id THEN [color |-> new_color, members |-> rest]
                            ELSE c.store[i]],
         color_cell |-> EditColorCell(c.color_cell, old_color, new_color, new_id),
         node_cell  |-> [u \in DOMAIN c.node_cell |->
                            IF u \in Range(new_members) THEN new_id ELSE c.node_cell[u]],
         node_color |-> [u \in DOMAIN c.node_color |->
                            IF u \in rest THEN new_color ELSE c.node_color[u]]]

\* split_cell(cell_idx, new_members): new_members is the Vec the caller passes.
SplitCell(c, cell_idx, new_members) ==
    LET old_id    == c.cells[cell_idx + 1]
        old_color == c.store[old_id].color
        new_color == old_color + Len(new_members)
        new_id    == FreshId(c)
        new_cell  == [color |-> old_color, members |-> Range(new_members)]
        rest      == c.store[old_id].members \ Range(new_members)
    IN  [size       |-> c.size,
         cells      |-> InsertAt(c.cells, cell_idx, new_id),
         store      |-> [i \in (DOMAIN c.store) \cup {new_id} |->
                            IF i = new_id THEN new_cell
                            ELSE IF i = old_id THEN [color |-> new_color, members |-> rest]
                            ELSE c.store[i]],
         color_cell |-> EditColorCell(c.color_cell, old_color, new_color, new_id),
         node_cell  |-> [u \in DOMAIN c.node_cell |->
                            IF u \in Range(new_members) THEN new_id ELSE c.node_cell[u]],
         node_color |-> [u \in DOMAIN c.node_color |->
                            IF u \in rest THEN new_color ELSE c.node_color[u]]]

\* individualize(cell_idx, node): ok is FALSE when the assertion of line 186
\* fails; ret is the returned colour.
Individualize(c, cell_idx, node) ==
    LET old_id    == c.cells[cell_idx + 1]
        old_color == c.store[old_id].color
        new_id    == FreshId(c)
        new_cell  == [color |-> old_color, members |-> {node}]
        rest      == c.store[old_id].members \ {node}
    IN  IF ~(1 < Cardinality(c.store[old_id].members))
        THEN [ok |-> FALSE, c |-> c, ret |-> 0]
        ELSE [ok  |-> TRUE,
              ret |-> old_color + 1,
              c   |-> [size       |-> c.size,
                       cells      |-> InsertAt(c.cells, cell_idx, new_id),
                       store      |-> [i \in (DOMAIN c.store) \cup {new_id} |->
                                        IF i = new_id THEN new_cell
                                        ELSE IF i = old_id
                                             THEN [color |-> old_color + 1, members |-> rest]
                                        ELSE c.store[i]],
                       color_cell |-> EditColorCell(c.color_cell, old_color,
                                                    old_color + 1, new_id),
                       node_cell  |-> [u \in DOMAIN c.node_cell |->
                                        IF u = node THEN new_id ELSE c.node_cell[u]],
                       node_color |-> [u \in DOMAIN c.node_color |->
                                        IF u \in rest THEN old_color + 1
                                        ELSE c.node_color[u]]]]

----------------------------------------------------------------------------
(* Refinement *)

\* get_color_index(col): the binary search over cells, which the caller
\* enters with (i, j) = (0, cells.len()) after the test of cells[0]; -1 stands
\* for a search that never returns (i and j no longer change).
RECURSIVE ColorIndexLoop(_, _, _, _)
ColorIndexLoop(c, col, i, j) ==
    LET k  == (i + j) \div 2
        _c == CellAt(c, k).color
    IN  IF _c = col THEN k
        ELSE IF _c > col
             THEN (IF j = k THEN -1 ELSE ColorIndexLoop(c, col, i, k))
             ELSE (IF i = k THEN -1 ELSE ColorIndexLoop(c, col, k, j))

GetColorIndex(c, col) ==
    IF CellAt(c, 0).color = col THEN 0
    ELSE ColorIndexLoop(c, col, 0, Len(c.cells))

\* The BinaryHeap of Reverse(colour) is a multiset of colours, kept here as an
\* ascending sequence.  push adds one copy; pop yields the smallest colour, and
\* the loop of lines 300-310 pops every further copy of it.
HeapPush(W, x) == InsertAt(W, Cardinality({i \in DOMAIN W : W[i] <= x}), x)

HeapPop(W) == Min(Range(W))

HeapRest(W) == LET s == Min(Range(W)) IN SelectSeq(W, LAMBDA x : x # s)

RECURSIVE HeapPushAll(_, _, _)
HeapPushAll(W, q, k) ==
    IF k > Len(q) THEN W ELSE HeapPushAll(HeapPush(W, q[k]), q, k + 1)

\* Degrees with the graph read as directed from the smaller to the larger
\* node: only the neighbours v > u of a member u are counted.
DegreesDirected(c, g, studied_color) ==
    LET studied == c.store[c.color_cell[studied_color]].members
    IN  [v \in Nodes(g) |->
            Cardinality({u \in studied : v \in Neighbors(g, u) /\ u < v})]

\* degrees[v]: the number of members u of the studied cell with v a neighbour
\* of u (lines 321-326 add 1 to degrees[v] once per such pair); 0 stands for
\* "no entry", which line 350 reads as 0.
Degrees(c, g, studied_color) ==
    LET studied == c.store[c.color_cell[studied_color]].members
    IN  [v \in Nodes(g) |-> Cardinality({u \in studied : v \in Neighbors(g, u)})]

\* visited_cells (lines 324, 330, 331): the colours of the nodes reached,
\* collected from the hash set and then sorted.
VisitedCells(c, g, degrees, ord) ==
    SortAsc(HashIter({c.node_color[v] : v \in {w \in Nodes(g) : degrees[w] > 0}}, ord))

\* splits (lines 345-359): the members of the cell, in the container's order,
\* bucketed by degree.
Splits(members, degrees, ord) ==
    LET seq == HashIter(members, ord)
    IN  [d \in {degrees[u] : u \in members} |->
            SelectSeq(seq, LAMBDA u : degrees[u] = d)]

\* SplitsDegrees without the sort of line 367: the keys in the container's order.
SplitsDegreesUnsorted(splits, ord) == HashIter(DOMAIN splits, ord)

\* splits_degrees (lines 365-367): the keys of splits, sorted.
SplitsDegrees(splits, ord) == SortAsc(HashIter(DOMAIN splits, ord))

\* What one pass of the loop of lines 371-387 did: the cell split had colour
\* c0 and gave away size members; new_c went to the heap, traced to the trace.
SplitEntry(c0, size, new_c, traced) ==
    [kind |-> "split", c0 |-> c0, size |-> size, pushed |-> new_c, traced |-> traced]

\* What lines 389-396 did with the bucket of the largest degree: it is left
\* in the cell, whose colour is now c0; pushed is that colour if it went to
\* the heap, -1 if not.
ResidualEntry(c0, size, pushed) ==
    [kind |-> "residual", c0 |-> c0, size |-> size, pushed |-> pushed, traced |-> -1]

\* SplitOff reading the entry of the trace from cells[_cell_idx], the cell it
\* reads new_c from.
SplitOffTracesNewCell(r, h) ==
    LET c2     == SplitCell(r.c, r.idx, h)
        new_c  == CellAt(c2, r.idx).color
        traced == CellAt(c2, r.idx).color
    IN  [c     |-> c2,
         W     |-> HeapPush(r.W, new_c),
         trace |-> Append(r.trace, traced),
         log   |-> Append(r.log, SplitEntry(CellAt(r.c, r.idx).color, Len(h), new_c, traced)),
         err   |-> r.err,
         idx   |-> r.idx + 1]

\* SplitOff reading new_c from cells[_cell_idx + 1], the cell it reads the
\* entry of the trace from.
SplitOffPushesTraced(r, h) ==
    LET c2     == SplitCell(r.c, r.idx, h)
        new_c  == CellAt(c2, r.idx + 1).color
        traced == CellAt(c2, r.idx + 1).color
    IN  [c     |-> c2,
         W     |-> HeapPush(r.W, new_c),
         trace |-> Append(r.trace, traced),
         log   |-> Append(r.log, SplitEntry(CellAt(r.c, r.idx).color, Len(h), new_c, traced)),
         err   |-> r.err,
         idx   |-> r.idx + 1]

\* One pass of the loop of lines 371-387: split the bucket h off the cell at
\* cell_idx, push the colour of cells[_cell_idx], extend the trace with the
\* colour of cells[_cell_idx + 1].
\* r = [c, W, trace, log, err, idx].
SplitOff(r, h) ==
    LET c2     == SplitCell(r.c, r.idx, h)
        new_c  == CellAt(c2, r.idx).color
        traced == CellAt(c2, r.idx + 1).color
    IN  [c     |-> c2,
         W     |-> HeapPush(r.W, new_c),
         trace |-> Append(r.trace, traced),
         log   |-> Append(r.log, SplitEntry(CellAt(r.c, r.idx).color, Len(h), new_c, traced)),
         err   |-> r.err,
         idx   |-> r.idx + 1]

RECURSIVE SplitLoop(_, _, _, _)
SplitLoop(r, splits, ds, k) ==
    IF k > Len(ds) - 1 THEN r
    ELSE SplitLoop(SplitOff(r, splits[ds[k]]), splits, ds, k + 1)

\* The body of "for _color in visited_cells" (lines 333-397) for one colour.
\* r = [c, W, trace, log, err].
VisitColor(r, _color, degrees, ord) ==
    IF _color \notin DOMAIN r.c.color_cell
    THEN [r EXCEPT !.err = "unwrap on a colour no cell holds"]
    ELSE
    LET c1 == r.c.store[r.c.color_cell[_color]]
    IN  IF Cardinality(c1.members) = 1 THEN r
        ELSE
        LET _cell_idx == GetColorIndex(r.c, _color)
            splits    == Splits(c1.members, degrees, ord)
            ds        == SplitsDegrees(splits, ord)
        IN  IF _cell_idx = -1
            THEN [r EXCEPT !.err = "get_color_index does not return"]
            ELSE IF Cardinality(DOMAIN splits) = 1 THEN r
            ELSE
            LET r2 == SplitLoop([c |-> r.c, W |-> r.W, trace |-> r.trace, log |-> r.log,
                                 err |-> r.err, idx |-> _cell_idx],
                                splits, ds, 1)
                h  == splits[ds[Len(ds)]]
            IN  [c     |-> r2.c,
                 W     |-> IF Len(h) > 1
                           THEN HeapPush(r2.W, CellAt(r2.c, r2.idx).color)
                           ELSE r2.W,
                 trace |-> r2.trace,
                 log   |-> Append(r2.log,
                                  ResidualEntry(CellAt(r2.c, r2.idx).color, Len(h),
                                                IF Len(h) > 1
                                                THEN CellAt(r2.c, r2.idx).color
                                                ELSE -1)),
                 err   |-> r2.err]

RECURSIVE VisitLoop(_, _, _, _, _)
VisitLoop(r, visited, k, degrees, ord) ==
    IF k > Len(visited) \/ r.err # "" THEN r
    ELSE VisitLoop(VisitColor(r, visited[k], degrees, ord), visited, k + 1, degrees, ord)

\* One iteration of the main loop of refine (lines 293-397) with a non-empty
\* heap: pop the studied colour, count the degrees, split the visited cells.
RefineIter(r, g, ord) ==
    LET studied_color == HeapPop(r.W)
        rest          == HeapRest(r.W)
    IN  IF studied_color \notin DOMAIN r.c.color_cell
        THEN [r EXCEPT !.W = rest, !.err = "unwrap on a colour no cell holds"]
        ELSE
        LET degrees == Degrees(r.c, g, studied_color)
            visited == VisitedCells(r.c, g, degrees, ord)
        IN  VisitLoop([r EXCEPT !.W = rest], visited, 1, degrees, ord)

\* The state of refine before its main loop (lines 279-289); a discrete
\* colouring returns at once with an empty trace (lines 275-277).
RefineStart(c, ord) ==
    [c     |-> c,
     W     |-> IF IsDiscrete(c) THEN <<>>
               ELSE HeapPushAll(<<>>, HashIter(DOMAIN c.color_cell, ord), 1),
     trace |-> <<>>,
     log   |-> <<>>,
     err   |-> ""]

RECURSIVE RefineLoop(_, _, _)
RefineLoop(r, g, ord) ==
    IF r.W = <<>> \/ r.err # "" THEN r
    ELSE RefineLoop(RefineIter(r, g, ord), g, ord)

\* refine(g): the colouring it leaves, the trace it returns, and err = "" when
\* it returns at all.
Refine(c, g, ord) == RefineLoop(RefineStart(c, ord), g, ord)

\* select_cell_v1: the index of the first cell with more than one member;
\* ok is FALSE when there is none and the function panics (line 415).
SelectCellV1(c) ==
    LET big == {i \in 0..(Len(c.cells) - 1) : Cardinality(CellAt(c, i).members) > 1}
    IN  IF big = {} THEN [ok |-> FALSE, idx |-> 0] ELSE [ok |-> TRUE, idx |-> Min(big)]

\* compute_graph_from_discrete: every edge (u, v) becomes
\* (node_color[u], node_color[v]) in a graph of size nodes; ok is FALSE when
\* the assertion of line 421 fails.
ComputeGraphFromDiscrete(c, g) ==
    [ok |-> IsDiscrete(c),
     g  |-> [n |-> c.size, e |-> {{c.node_color[x] : x \in ed} : ed \in g.e}]]

----------------------------------------------------------------------------
(* Kdim and the descriptor *)

\* Vec<usize>::cmp, the lexicographic order: -1 (Less), 0 (Equal), 1 (Greater).
RECURSIVE VecCmp(_, _)
VecCmp(a, b) ==
    IF a = <<>> /\ b = <<>> THEN 0
    ELSE IF a = <<>> THEN -1
    ELSE IF b = <<>> THEN 1
    ELSE IF Head(a) < Head(b) THEN -1
    ELSE IF Head(a) > Head(b) THEN 1
    ELSE VecCmp(Tail(a), Tail(b))

\* Kdim::new(u, v): the tuple struct Kdim(usize, Vec<usize>).
KdimNew(u, v) == <<u, v>>

\* cmp without the reverse of line 457.
KdimCmpNotReversed(a, b) ==
    IF a[1] > b[1] THEN 1
    ELSE IF a[1] < b[1] THEN -1
    ELSE VecCmp(a[2], b[2])

\* impl Ord for Kdim: cmp.
KdimCmp(a, b) ==
    IF a[1] > b[1] THEN 1
    ELSE IF a[1] < b[1] THEN -1
    ELSE 0 - VecCmp(a[2], b[2])

\* impl PartialEq for Kdim: eq.
KdimEq(a, b) == IF a[1] # b[1] THEN FALSE ELSE a[2] = b[2]

\* The inner loop of compute_descriptor (lines 201-204): the gaps between the
\* successive neighbours of a row, starting from prev_neigh.
RECURSIVE Gaps(_, _, _)
Gaps(ordered_neighbors, k, prev_neigh) ==
    IF k > Len(ordered_neighbors) THEN <<>>
    ELSE <<ordered_neighbors[k] - prev_neigh>>
            \o Gaps(ordered_neighbors, k + 1, ordered_neighbors[k])

\* DescriptorRow without the separator of line 205.
DescriptorRowNoSeparator(g, i) ==
    LET ordered_neighbors == SortAsc(HashIter({j \in Neighbors(g, i) : j > i},
                                              IdOrder(g.n)))
    IN  Gaps(ordered_neighbors, 1, i)

\* The body of the loop of compute_descriptor for node i (lines 198-205): the
\* neighbours j > i, collected and sorted, their gaps, then the separator n.
DescriptorRow(g, i) ==
    LET ordered_neighbors == SortAsc(HashIter({j \in Neighbors(g, i) : j > i},
                                              IdOrder(g.n)))
    IN  Gaps(ordered_neighbors, 1, i) \o <<g.n>>

RECURSIVE DescriptorRows(_, _)
DescriptorRows(g, i) ==
    IF i > g.n - 2 THEN <<>> ELSE DescriptorRow(g, i) \o DescriptorRows(g, i + 1)

\* ComputeDescriptor with the loop of line 197 running over 0..n instead of
\* 0..(n-1): the last node gets a row too.
ComputeDescriptorAllRows(g) ==
    IF g.n = 0 THEN [ok |-> FALSE, d |-> <<>>]
    ELSE [ok |-> TRUE, d |-> <<g.n>> \o DescriptorRows(g, 0) \o DescriptorRow(g, g.n - 1)]

\* compute_descriptor.  With n = 0 the bound n - 1 of line 197 underflows: a
\* build with overflow checks panics there, and one without runs the loop
\* until memory is exhausted; either way no descriptor is returned (ok FALSE).
ComputeDescriptor(g) ==
    IF g.n = 0 THEN [ok |-> FALSE, d |-> <<>>]
    ELSE [ok |-> TRUE, d |-> <<g.n>> \o DescriptorRows(g, 0)]

----------------------------------------------------------------------------
(* The colouring and its public operations as a state machine *)

InputGraphs == UNION {AllGraphs(n) : n \in 0..MaxN}

\* A Vec holding the elements of S, as a caller of split_cell builds it.
VecOf(S) == HashIter(S, IdOrder(MaxN))

PInit ==
    /\ graph \in InputGraphs
    /\ colouring = ColouringNew(graph)
    /\ pc = "idle"
    /\ uncounted_colors = <<>>
    /\ cur_trace = <<>>
    /\ split_log = <<>>
    /\ refine_err = ""
    /\ lastop = "new"
    /\ ret = <<>>

\* individualize(cell_idx, node), its precondition met: the cell has more than
\* one member and node is one of them.
DoIndividualize ==
    /\ pc = "idle"
    /\ \E cell_idx \in 0..(Len(colouring.cells) - 1) :
         \E node \in CellAt(colouring, cell_idx).members :
            /\ Cardinality(CellAt(colouring, cell_idx).members) > 1
            /\ colouring' = Normalize(Individualize(colouring, cell_idx, node).c)
            /\ ret' = <<Individualize(colouring, cell_idx, node).ret>>
    /\ lastop' = "individualize"
    /\ UNCHANGED <<graph, pc, uncounted_colors, cur_trace, split_log, refine_err>>
    /\ UNCHANGED <<kvars, dvars, ovars, cvars>>

\* split_cell(cell_idx, new_members), its precondition met: new_members is a
\* non-empty proper subset of the cell.
DoSplitCell ==
    /\ pc = "idle"
    /\ \E cell_idx \in 0..(Len(colouring.cells) - 1) :
         \E S \in SUBSET CellAt(colouring, cell_idx).members :
            /\ S # {}
            /\ S # CellAt(colouring, cell_idx).members
            /\ colouring' = Normalize(SplitCell(colouring, cell_idx, VecOf(S)))
    /\ lastop' = "split_cell"
    /\ ret' = <<>>
    /\ UNCHANGED <<graph, pc, uncounted_colors, cur_trace, split_log, refine_err>>
    /\ UNCHANGED <<kvars, dvars, ovars, cvars>>

\* clone(): the caller goes on with the copy.
DoClone ==
    /\ pc = "idle"
    /\ colouring' = Clone(colouring).c
    /\ pc' = IF Clone(colouring).ok THEN "idle" ELSE "aborted"
    /\ lastop' = "clone"
    /\ ret' = <<>>
    /\ UNCHANGED <<graph, uncounted_colors, cur_trace, split_log, refine_err>>
    /\ UNCHANGED <<kvars, dvars, ovars, cvars>>

\* refine(graph) is entered: lines 275-289.
DoRefineBegin ==
    /\ pc = "idle"
    /\ \E ord \in Orders(graph.n) :
         uncounted_colors' = RefineStart(colouring, ord).W
    /\ pc' = "refine"
    /\ cur_trace' = <<>>
    /\ split_log' = <<>>
    /\ refine_err' = ""
    /\ lastop' = "refine"
    /\ ret' = <<>>
    /\ UNCHANGED <<graph, colouring>>
    /\ UNCHANGED <<kvars, dvars, ovars, cvars>>

\* One iteration of the main loop of refine.
DoRefineIter ==
    /\ pc = "refine"
    /\ uncounted_colors # <<>>
    /\ refine_err = ""
    /\ \E ord \in Orders(graph.n) :
         LET r == RefineIter([c |-> colouring, W |-> uncounted_colors, trace |-> cur_trace,
                               log |-> split_log, err |-> refine_err], graph, ord)
         IN  /\ colouring' = Normalize(r.c)
             /\ uncounted_colors' = r.W
             /\ cur_trace' = r.trace
             /\ split_log' = r.log
             /\ refine_err' = r.err
    /\ UNCHANGED <<graph, pc, lastop, ret>>
    /\ UNCHANGED <<kvars, dvars, ovars, cvars>>

\* refine returns its cur_trace (line 400), or has panicked.
DoRefineReturn ==
    /\ pc = "refine"
    /\ uncounted_colors = <<>> \/ refine_err # ""
    /\ pc' = IF refine_err = "" THEN "idle" ELSE "aborted"
    /\ ret' = cur_trace
    /\ uncounted_colors' = <<>>
    /\ cur_trace' = <<>>
    /\ split_log' = <<>>
    /\ UNCHANGED <<graph, colouring, refine_err, lastop>>
    /\ UNCHANGED <<kvars, dvars, ovars, cvars>>

\* The state of a machine that is not running.
POff ==
    /\ graph = [n |-> 0, e |-> {}]
    /\ colouring = ColouringNew(graph)
    /\ pc = "off"
    /\ uncounted_colors = <<>>
    /\ cur_trace = <<>>
    /\ split_log = <<>>
    /\ refine_err = ""
    /\ lastop = "none"
    /\ ret = <<>>

KOff ==
    /\ scn = [kind |-> "none", gs |-> <<>>]
    /\ krun = 0
    /\ keys = <<>>
    /\ kpc = "off"
    /\ next_list = <<>>
    /\ current_list = <<>>
    /\ best_k_dim = KdimNew(0, <<>>)
    /\ leaf_found = FALSE
    /\ cur_node = <<>>
    /\ level = 0
    /\ branches = {}

DOff ==
    /\ dpc = "off"
    /\ dgraphs = <<>>
    /\ dparts = <<>>
    /\ dlabelled = <<>>
    /\ ddescs = <<>>

OOff ==
    /\ opc = "off"
    /\ okdims = <<>>
    /\ ocmp = <<>>

COff ==
    /\ cpc = "off"
    /\ cop = "none"
    /\ cgraph = [n |-> 0, e |-> {}]
    /\ heap = <<>>
    /\ orig = <<>>
    /\ copy = <<>>

Init == PInit /\ KOff /\ DOff /\ OOff /\ COff

Next ==
    \/ DoIndividualize
    \/ DoSplitCell
    \/ DoClone
    \/ DoRefineBegin
    \/ DoRefineIter
    \/ DoRefineReturn

Spec == Init /\ [][Next]_vars

----------------------------------------------------------------------------
(* The public operations called with their preconditions violated *)

\* individualize(cell_idx, node) on a cell with one member, node being it.
DoIndividualizeSingleton ==
    /\ pc = "idle"
    /\ \E cell_idx \in 0..(Len(colouring.cells) - 1) :
         \E node \in CellAt(colouring, cell_idx).members :
            /\ Cardinality(CellAt(colouring, cell_idx).members) = 1
            /\ colouring' = Normalize(Individualize(colouring, cell_idx, node).c)
            /\ pc' = IF Individualize(colouring, cell_idx, node).ok
                     THEN "returned" ELSE "aborted"
    /\ lastop' = "individualize on a singleton cell"
    /\ ret' = <<>>
    /\ UNCHANGED <<graph, uncounted_colors, cur_trace, split_log, refine_err>>
    /\ UNCHANGED <<kvars, dvars, ovars, cvars>>

\* split_cell(cell_idx, new_members) with new_members empty or holding every
\* member of the cell.  split_cell has no assertion and no panic of its own.
DoSplitCellBadSubset ==
    /\ pc = "idle"
    /\ \E cell_idx \in 0..(Len(colouring.cells) - 1) :
         \E S \in {{}, CellAt(colouring, cell_idx).members} :
            colouring' = Normalize(SplitCell(colouring, cell_idx, VecOf(S)))
    /\ pc' = "returned"
    /\ lastop' = "split_cell with an empty or full subset"
    /\ ret' = <<>>
    /\ UNCHANGED <<graph, uncounted_colors, cur_trace, split_log, refine_err>>
    /\ UNCHANGED <<kvars, dvars, ovars, cvars>>

\* select_cell_v1() on a discrete colouring.
DoSelectCellDiscrete ==
    /\ pc = "idle"
    /\ IsDiscrete(colouring)
    /\ pc' = IF SelectCellV1(colouring).ok THEN "returned" ELSE "aborted"
    /\ ret' = IF SelectCellV1(colouring).ok THEN <<SelectCellV1(colouring).idx>> ELSE <<>>
    /\ lastop' = "select_cell_v1 on a discrete colouring"
    /\ UNCHANGED <<graph, colouring, uncounted_colors, cur_trace, split_log, refine_err>>
    /\ UNCHANGED <<kvars, dvars, ovars, cvars>>

MisuseNext ==
    \/ DoIndividualize
    \/ DoSplitCell
    \/ DoClone
    \/ DoRefineBegin
    \/ DoRefineIter
    \/ DoRefineReturn
    \/ DoIndividualizeSingleton
    \/ DoSplitCellBadSubset
    \/ DoSelectCellDiscrete

SpecMisuse == Init /\ [][MisuseNext]_vars

----------------------------------------------------------------------------
(* compute_descriptor on the relabelled graphs of two discrete colourings *)

\* Largest node count of the graphs that are relabelled and described.
MaxDescN == 4

\* The discrete colouring reached from Colouring::new by individualizing the
\* nodes in the order of the sequence q, each time in the last cell (the one
\* holding the nodes not yet individualized).
RECURSIVE IndividualizeAll(_, _, _)
IndividualizeAll(c, q, k) ==
    IF k >= Len(q) THEN c
    ELSE IndividualizeAll(Individualize(c, k - 1, q[k]).c, q, k + 1)

DiscreteColouring(gr, p) ==
    Normalize(IndividualizeAll(ColouringNew(gr), [i \in 1..gr.n |-> p[i - 1]], 1))

IdPerm(n) == [i \in 0..(n - 1) |-> i]

\* The inputs: two graphs on the same nodes, each with the colouring that
\* gives node i the colour i; or one graph with two discrete colourings.
DInit ==
    /\ dpc = "input"
    /\ \E n \in 1..MaxDescN :
         \E g1 \in AllGraphs(n) :
            \/ \E g2 \in AllGraphs(n) :
                 /\ dgraphs = <<g1, g2>>
                 /\ dparts = <<DiscreteColouring(g1, IdPerm(n)),
                               DiscreteColouring(g2, IdPerm(n))>>
            \/ \E p1 \in Perms(n) : \E p2 \in Perms(n) :
                 /\ dgraphs = <<g1, g1>>
                 /\ dparts = <<DiscreteColouring(g1, p1), DiscreteColouring(g1, p2)>>
    /\ dlabelled = <<>>
    /\ ddescs = <<>>

\* compute_graph_from_discrete on both colourings.
DoRelabel ==
    /\ dpc = "input"
    /\ dlabelled' = [i \in 1..2 |-> ComputeGraphFromDiscrete(dparts[i], dgraphs[i])]
    /\ dpc' = IF \A i \in 1..2 : dlabelled'[i].ok THEN "labelled" ELSE "aborted"
    /\ UNCHANGED <<dgraphs, dparts, ddescs>>
    /\ UNCHANGED <<pvars, kvars, ovars, cvars>>

\* compute_descriptor on both relabelled graphs.
DoDescribe ==
    /\ dpc = "labelled"
    /\ ddescs' = [i \in 1..2 |-> ComputeDescriptor(dlabelled[i].g)]
    /\ dpc' = IF \A i \in 1..2 : ddescs'[i].ok THEN "described" ELSE "aborted"
    /\ UNCHANGED <<dgraphs, dparts, dlabelled>>
    /\ UNCHANGED <<pvars, kvars, ovars, cvars>>

DNext == DoRelabel \/ DoDescribe

InitDesc == DInit /\ POff /\ KOff /\ OOff /\ COff

SpecDesc == InitDesc /\ [][DNext]_vars

----------------------------------------------------------------------------
(* The order of Kdim *)

\* Largest cell count and longest trace of the Kdims compared; the colours of
\* a trace are below MaxTraceLen.
MaxKdimCount == 2

MaxTraceLen == 2

Traces == UNION {[1..l -> 0..(MaxTraceLen - 1)] : l \in 0..MaxTraceLen}

Kdims == {KdimNew(u, v) : u \in 0..MaxKdimCount, v \in Traces}

OInit ==
    /\ opc = "input"
    /\ okdims \in Kdims \X Kdims \X Kdims
    /\ ocmp = <<>>

\* a.cmp(b) and a == b for every two of the three Kdims, and the comparison
\* of line 69's Kdim::new(0, vec![]) with each of them.
DoCompare ==
    /\ opc = "input"
    /\ ocmp' = [cmp  |-> [i \in 1..3 |-> [j \in 1..3 |-> KdimCmp(okdims[i], okdims[j])]],
                eq   |-> [i \in 1..3 |-> [j \in 1..3 |-> KdimEq(okdims[i], okdims[j])]],
                init |-> [i \in 1..3 |-> KdimCmp(KdimNew(0, <<>>), okdims[i])]]
    /\ opc' = "compared"
    /\ UNCHANGED okdims
    /\ UNCHANGED <<pvars, kvars, dvars, cvars>>

ONext == DoCompare

InitOrd == OInit /\ POff /\ KOff /\ DOff /\ COff

SpecOrd == InitOrd /\ [][ONext]_vars

----------------------------------------------------------------------------
(* A Colouring and its clone *)

\* Largest node count of the graphs whose colouring is cloned.
MaxCloneN == 3

\* The fields of a Colouring, its Rc's being keys of the memory hp.
Fields(c) ==
    [size |-> c.size, cells |-> c.cells, color_cell |-> c.color_cell,
     node_cell |-> c.node_cell, node_color |-> c.node_color]

\* The Colouring with fields f in the memory hp.
InHeap(f, hp) ==
    [size |-> f.size, cells |-> f.cells, store |-> hp, color_cell |-> f.color_cell,
     node_cell |-> f.node_cell, node_color |-> f.node_color]

\* Rc::clone of every Rc of f instead of lines 78-79: no Cell is made, the
\* clone points to the cells of the original.
CloneIntoShared(f, hp) == [ok |-> TRUE, heap |-> hp, copy |-> f]

\* clone() in the memory hp: each Rc::new of line 79 is a key hp does not
\* have yet.
CloneInto(f, hp) ==
    LET cl  == Clone(InHeap(f, hp))
        off == Cardinality(DOMAIN hp)
    IN  [ok   |-> cl.ok,
         heap |-> [i \in (DOMAIN hp) \cup {k + off : k \in DOMAIN cl.c.store} |->
                     IF i \in DOMAIN hp THEN hp[i] ELSE cl.c.store[i - off]],
         copy |-> [size       |-> cl.c.size,
                   cells      |-> [i \in DOMAIN cl.c.cells |-> cl.c.cells[i] + off],
                   color_cell |-> [k \in DOMAIN cl.c.color_cell |-> cl.c.color_cell[k] + off],
                   node_cell  |-> [u \in DOMAIN cl.c.node_cell |-> cl.c.node_cell[u] + off],
                   node_color |-> cl.c.node_color]]

\* What a call on the Colouring with fields f can leave: individualize and
\* split_cell with their preconditions met, and refine.
CallResults(f, hp, g) ==
    LET c == InHeap(f, hp)
    IN  {[ok |-> TRUE, c |-> Individualize(c, cell_idx, node).c] :
            <<cell_idx, node>> \in
               {x \in (0..(Len(c.cells) - 1)) \X Nodes(g) :
                   /\ x[2] \in CellAt(c, x[1]).members
                   /\ Cardinality(CellAt(c, x[1]).members) > 1}}
        \cup
        {[ok |-> TRUE, c |-> SplitCell(c, x[1], VecOf(x[2]))] :
            x \in {y \in (0..(Len(c.cells) - 1)) \X (SUBSET Nodes(g)) :
                      /\ y[2] # {}
                      /\ y[2] \subseteq CellAt(c, y[1]).members
                      /\ y[2] # CellAt(c, y[1]).members}}
        \cup
        {[ok |-> Refine(c, g, ord).err = "", c |-> Refine(c, g, ord).c] :
            ord \in Orders(g.n)}

CInit ==
    /\ cpc = "new"
    /\ cop = "new"
    /\ \E n \in 1..MaxCloneN : cgraph \in AllGraphs(n)
    /\ heap = ColouringNew(cgraph).store
    /\ orig = Fields(ColouringNew(cgraph))
    /\ copy = <<>>

\* A call on the Colouring before it is cloned.
DoCallBeforeClone ==
    /\ cpc = "new"
    /\ \E r \in CallResults(orig, heap, cgraph) :
          /\ heap' = r.c.store
          /\ orig' = Fields(r.c)
          /\ cpc' = IF r.ok THEN "new" ELSE "aborted"
    /\ cop' = "call before clone"
    /\ UNCHANGED <<cgraph, copy>>
    /\ UNCHANGED <<pvars, kvars, dvars, ovars>>

\* clone().
DoCloneInHeap ==
    /\ cpc = "new"
    /\ heap' = CloneInto(orig, heap).heap
    /\ copy' = CloneInto(orig, heap).copy
    /\ cpc' = IF CloneInto(orig, heap).ok THEN "cloned" ELSE "aborted"
    /\ cop' = "clone"
    /\ UNCHANGED <<cgraph, orig>>
    /\ UNCHANGED <<pvars, kvars, dvars, ovars>>

\* A call on the clone.
DoCallOnCopy ==
    /\ cpc = "cloned"
    /\ \E r \in CallResults(copy, heap, cgraph) :
          /\ heap' = r.c.store
          /\ copy' = Fields(r.c)
          /\ cpc' = IF r.ok THEN "cloned" ELSE "aborted"
    /\ cop' = "call on the clone"
    /\ UNCHANGED <<cgraph, orig>>
    /\ UNCHANGED <<pvars, kvars, dvars, ovars>>

\* A call on the Colouring that was cloned.
DoCallOnOrig ==
    /\ cpc = "cloned"
    /\ \E r \in CallResults(orig, heap, cgraph) :
          /\ heap' = r.c.store
          /\ orig' = Fields(r.c)
          /\ cpc' = IF r.ok THEN "cloned" ELSE "aborted"
    /\ cop' = "call on the original"
    /\ UNCHANGED <<cgraph, copy>>
    /\ UNCHANGED <<pvars, kvars, dvars, ovars>>

CNext == DoCallBeforeClone \/ DoCloneInHeap \/ DoCallOnCopy \/ DoCallOnOrig

InitClone == CInit /\ POff /\ KOff /\ DOff /\ OOff

SpecClone == InitClone /\ [][CNext]_vars

----------------------------------------------------------------------------
(* GraphKey::new *)

\* Largest node count of the graphs keyed exhaustively.
MaxKeyN == 4

\* The hash orders tried inside GraphKey::new: ascending and descending.
KeyOrders(n) == {IdOrder(n), [x \in 0..n |-> n - x]}

\* struct TreeNode.  An Option is a sequence: <<>> is None, <<x>> is Some(x).
TreeNode(c, target_cell, children, son_in_exp_path, son_k_dim) ==
    [c               |-> c,
     target_cell     |-> target_cell,
     children        |-> children,
     son_in_exp_path |-> son_in_exp_path,
     son_k_dim       |-> son_k_dim]

\* Vec::remove(0) instead of Vec::pop: the first element is taken.
PopValueFront(q) == q[1]

\* Vec::pop: the last element is taken.
PopValue(q) == q[Len(q)]

PopRest(q) == SubSeq(q, 1, Len(q) - 1)

\* Lines 97-99 (and 144-146): the trace refine returned gets new_color in
\* front, and the Kdim is built from the cell count and the trace.  r is what
\* refine left; err is "" or the diagnostic of the panic.
RefinedChild(new_color, r) ==
    IF r.err # "" THEN [err |-> r.err, gc |-> <<>>, k_dim |-> <<>>]
    ELSE [err   |-> "",
          gc    |-> Normalize(r.c),
          k_dim |-> KdimNew(GetCellCount(r.c), <<new_color>> \o r.trace)]

\* Lines 96-97 (and 143-144): ind is what individualize returned.
IndividualizedChild(ind, g, ord) ==
    IF ~ind.ok
    THEN [err |-> "assertion failed in individualize", gc |-> <<>>, k_dim |-> <<>>]
    ELSE RefinedChild(ind.ret, Refine(ind.c, g, ord))

\* Lines 95-99 (and 142-146): clone the colouring, individualize _v in the
\* target cell, refine, build the Kdim.
ChildColouring(c, target_cell, _v, g, ord) ==
    IF ~Clone(c).ok
    THEN [err |-> "unwrap on None in clone", gc |-> <<>>, k_dim |-> <<>>]
    ELSE IndividualizedChild(Individualize(Clone(c).c, target_cell, _v), g, ord)

\* Lines 134-150: the node built for st._gc, and the colouring and Kdim ch of
\* the child popped from it.  st = [err, nodes, _gc, k_dim], nodes being the
\* nodes built so far, each to be owned by the one before it.
PathNode(st, target, children, ch) ==
    IF ch.err # "" THEN [st EXCEPT !.err = ch.err]
    ELSE [err   |-> "",
          nodes |-> Append(st.nodes,
                           TreeNode(st._gc, target, PopRest(children), <<>>, <<st.k_dim>>)),
          _gc   |-> ch.gc,
          k_dim |-> ch.k_dim]

\* One pass of the loop "Compute experimental path" (lines 114-153) with a
\* colouring st._gc that is not discrete.
PathStep(st, g, ord) ==
    LET sel      == SelectCellV1(st._gc)
        children == SortDesc(GetCellMembers(st._gc, sel.idx, ord))
    IN  IF ~sel.ok
        THEN [st EXCEPT !.err = "select_cell called on a discrete coloring"]
        ELSE PathNode(st, sel.idx, children,
                      ChildColouring(st._gc, sel.idx, PopValue(children), g, ord))

RECURSIVE PathLoop(_, _, _)
PathLoop(st, g, ord) ==
    IF st.err # "" \/ IsDiscrete(st._gc) THEN st
    ELSE PathLoop(PathStep(st, g, ord), g, ord)

\* ancestor_in_exp_path.son_in_exp_path = Some(Box::new(...)) along the path:
\* nodes[k] owns nodes[k+1], and the last of nodes owns son.
RECURSIVE OwnedBy(_, _, _)
OwnedBy(nodes, k, son) ==
    IF k = 0 THEN son
    ELSE OwnedBy(nodes, k - 1, [nodes[k] EXCEPT !.son_in_exp_path = <<son>>])

\* Lines 116-130: the loop ends with a discrete st._gc, which becomes the leaf.
PathWithLeaf(st) ==
    IF st.err # "" THEN [err |-> st.err, node |-> <<>>]
    ELSE [err  |-> "",
          node |-> OwnedBy(st.nodes, Len(st.nodes),
                           TreeNode(st._gc, 0, <<>>, <<>>, <<st.k_dim>>))]

\* The loop of lines 114-153, entered with _gc and k_dim: the node that ends
\* up in node.son_in_exp_path, the head of a chain ending in a leaf.
ExperimentalPath(_gc, k_dim, g, ord) ==
    PathWithLeaf(PathLoop([err |-> "", nodes |-> <<>>, _gc |-> _gc, k_dim |-> k_dim],
                          g, ord))

\* Lines 164-165 and 168-169 for one entry of next_list.
LeafDescriptor(c, g) ==
    LET canonical == ComputeGraphFromDiscrete(c, g)
    IN  IF ~canonical.ok
        THEN [ok |-> FALSE, d |-> <<>>, diag |-> "assertion failed: is_discrete"]
        ELSE IF ~ComputeDescriptor(canonical.g).ok
        THEN [ok |-> FALSE, d |-> <<>>, diag |-> "underflow in compute_descriptor"]
        ELSE [ok |-> TRUE, d |-> ComputeDescriptor(canonical.g).d, diag |-> ""]

\* The loop of lines 167-173: the largest descriptor of the entries k.. of
\* descs and of best_descriptor.
RECURSIVE BestDescriptor(_, _, _)
BestDescriptor(descs, k, best_descriptor) ==
    IF k > Len(descs) THEN best_descriptor
    ELSE BestDescriptor(descs, k + 1,
                        IF VecCmp(descs[k].d, best_descriptor) > 0
                        THEN descs[k].d ELSE best_descriptor)

\* The graphs GraphKey::new is run on.
Cycle5 == [n |-> 5, e |-> {{0, 1}, {1, 2}, {2, 3}, {3, 4}, {0, 4}}]

\* A 4-regular graph on 10 nodes and a permutation of its nodes.
Regular10 ==
    [n |-> 10,
     e |-> {{0, 2}, {0, 6}, {0, 7}, {0, 9}, {1, 2}, {1, 3}, {1, 8}, {1, 9}, {2, 5}, {2, 8},
            {3, 4}, {3, 5}, {3, 7}, {4, 6}, {4, 8}, {4, 9}, {5, 6}, {5, 7}, {6, 7}, {8, 9}}]

Perm10 == [i \in 0..9 |-> <<9, 0, 8, 7, 5, 1, 2, 4, 6, 3>>[i + 1]]

\* tests::hashset_graphkeys: the edge (0, 1) is removed if present, added if not.
ToggleEdge01(g) ==
    [n |-> g.n, e |-> IF {0, 1} \in g.e THEN g.e \ {{0, 1}} ELSE g.e \cup {{0, 1}}]

\* A graph and a relabelling of it, then (from two nodes on) the graph with
\* the edge (0, 1) toggled and the same relabelling of that.
Relabelled(g, perm) ==
    [kind |-> "relabel",
     gs   |-> IF g.n < 2 THEN <<g, PermGraph(g, perm)>>
              ELSE <<g, PermGraph(g, perm),
                     ToggleEdge01(g), PermGraph(ToggleEdge01(g), perm)>>]

\* tests::is_isomorphic_test: two graphs on the same nodes.
Paired(g, h) == [kind |-> "pair", gs |-> <<g, h>>]

RelabelScenarios ==
    UNION {{Relabelled(g, perm) : g \in AllGraphs(n), perm \in Perms(n)} : n \in 0..MaxKeyN}

PairScenarios ==
    UNION {{Paired(g, h) : g \in AllGraphs(n), h \in AllGraphs(n)} : n \in 1..MaxKeyN}

Scenarios ==
    RelabelScenarios
        \cup {Relabelled(Cycle5, perm) : perm \in Perms(5)}
        \cup {Relabelled(Regular10, Perm10)}
        \cup PairScenarios

KInit ==
    /\ scn \in Scenarios
    /\ krun = 1
    /\ keys = <<>>
    /\ kpc = "start"
    /\ next_list = <<>>
    /\ current_list = <<>>
    /\ best_k_dim = KdimNew(0, <<>>)
    /\ leaf_found = FALSE
    /\ cur_node = <<>>
    /\ level = 0
    /\ branches = {}

\* GraphKey::new ends, by a return (ok, with the key) or by a panic (with its
\* diagnostic); the next graph of the scenario is keyed afterwards.
KEnd(outcome) ==
    /\ keys' = Append(keys, outcome)
    /\ krun' = krun + 1
    /\ kpc' = IF krun + 1 > Len(scn.gs) THEN "done" ELSE "start"
    /\ next_list' = <<>>
    /\ current_list' = <<>>
    /\ best_k_dim' = KdimNew(0, <<>>)
    /\ leaf_found' = FALSE
    /\ cur_node' = <<>>
    /\ level' = 0
    /\ branches' = {}
    /\ UNCHANGED scn

Returned(key) == [ok |-> TRUE, key |-> key, diag |-> ""]

Panicked(diag) == [ok |-> FALSE, key |-> <<>>, diag |-> diag]

\* Lines 26-59: the first colouring and refinement, the key of a discrete
\* colouring, or the root of the tree.
KStart ==
    /\ kpc = "start"
    /\ LET g == scn.gs[krun]
       IN  \E ord \in KeyOrders(g.n) :
             LET r    == Refine(ColouringNew(g), g, ord)
                 gc   == Normalize(r.c)
                 leaf == LeafDescriptor(gc, g)
                 sel  == SelectCellV1(gc)
                 root == TreeNode(gc, sel.idx,
                                  SortDesc(GetCellMembers(gc, sel.idx, ord)), <<>>, <<>>)
             IN  IF r.err # "" THEN KEnd(Panicked(r.err))
                 ELSE IF IsDiscrete(gc)
                 THEN KEnd(IF leaf.ok THEN Returned(leaf.d) ELSE Panicked(leaf.diag))
                 ELSE IF ~sel.ok
                 THEN KEnd(Panicked("select_cell called on a discrete coloring"))
                 ELSE /\ next_list' = <<root>>
                      /\ leaf_found' = FALSE
                      /\ kpc' = "while"
                      /\ UNCHANGED <<level, branches, scn, krun, keys, current_list, best_k_dim, cur_node>>
    /\ UNCHANGED <<pvars, dvars, ovars, cvars>>

\* Lines 64-69: the while loop is entered for one more level.
KLevel ==
    /\ kpc = "while"
    /\ ~leaf_found
    /\ current_list' = next_list
    /\ next_list' = <<>>
    /\ best_k_dim' = KdimNew(0, <<>>)
    /\ kpc' = "for"
    /\ level' = level + 1
    /\ branches' = {}
    /\ UNCHANGED <<scn, krun, keys, leaf_found, cur_node>>
    /\ UNCHANGED <<pvars, dvars, ovars, cvars>>

\* Lines 71-89: the for loop takes the next node; the son it carries in the
\* experimental path is compared with node.son_k_dim and moved to next_list.
KNode ==
    /\ kpc = "for"
    /\ current_list # <<>>
    /\ LET node == Head(current_list)
       IN  IF node.son_in_exp_path = <<>>
           THEN /\ cur_node' = <<node>>
                /\ current_list' = Tail(current_list)
                /\ kpc' = "children"
                /\ UNCHANGED <<level, branches, scn, krun, keys, next_list, best_k_dim, leaf_found>>
           ELSE IF node.son_k_dim = <<>>
           THEN KEnd(Panicked("unwrap on None: son_k_dim"))
           ELSE
           LET b      == node.son_in_exp_path[1]
               kd     == node.son_k_dim[1]
               keep   == KdimCmp(best_k_dim, kd) <= 0
               better == KdimCmp(best_k_dim, kd) < 0
           IN  /\ leaf_found' = (leaf_found \/ IsDiscrete(b.c))
               /\ next_list' = IF keep
                               THEN Append(IF better THEN <<>> ELSE next_list, b)
                               ELSE next_list
               /\ best_k_dim' = IF better THEN kd ELSE best_k_dim
               /\ cur_node' = <<[node EXCEPT !.son_in_exp_path = <<>>]>>
               /\ current_list' = Tail(current_list)
               /\ kpc' = "children"
               /\ branches' = branches \cup {[c |-> b.c, k_dim |-> b.son_k_dim[1]]}
               /\ UNCHANGED <<level, scn, krun, keys>>
    /\ UNCHANGED <<pvars, dvars, ovars, cvars>>

\* KChildPush without the test of line 156: leaf_found is set by every push.
KChildPushLeafUntested(popped, ch, path) ==
    IF path.err # "" THEN KEnd(Panicked(path.err))
    ELSE /\ cur_node' = <<popped>>
         /\ best_k_dim' = IF KdimCmp(best_k_dim, ch.k_dim) < 0 THEN ch.k_dim
                          ELSE best_k_dim
         /\ next_list' = Append(IF KdimCmp(best_k_dim, ch.k_dim) < 0 THEN <<>>
                                ELSE next_list,
                                path.node)
         /\ leaf_found' = TRUE
         /\ branches' = branches \cup {[c |-> ch.gc, k_dim |-> ch.k_dim]}
         /\ UNCHANGED <<level, scn, krun, keys, kpc, current_list>>

\* KChildPush without the push of line 157: the experimental path is dropped.
KChildPushForgotten(popped, ch, path) ==
    IF path.err # "" THEN KEnd(Panicked(path.err))
    ELSE /\ cur_node' = <<popped>>
         /\ best_k_dim' = IF KdimCmp(best_k_dim, ch.k_dim) < 0 THEN ch.k_dim
                          ELSE best_k_dim
         /\ next_list' = IF KdimCmp(best_k_dim, ch.k_dim) < 0 THEN <<>> ELSE next_list
         /\ leaf_found' = (leaf_found \/ IsDiscrete(path.node.c))
         /\ branches' = branches \cup {[c |-> ch.gc, k_dim |-> ch.k_dim]}
         /\ UNCHANGED <<level, scn, krun, keys, kpc, current_list>>

\* Lines 155-159: the head of the experimental path is pushed on next_list.
KChildPush(popped, ch, path) ==
    IF path.err # "" THEN KEnd(Panicked(path.err))
    ELSE /\ cur_node' = <<popped>>
         /\ best_k_dim' = IF KdimCmp(best_k_dim, ch.k_dim) < 0 THEN ch.k_dim
                          ELSE best_k_dim
         /\ next_list' = Append(IF KdimCmp(best_k_dim, ch.k_dim) < 0 THEN <<>>
                                ELSE next_list,
                                path.node)
         /\ leaf_found' = (leaf_found \/ IsDiscrete(path.node.c))
         /\ branches' = branches \cup {[c |-> ch.gc, k_dim |-> ch.k_dim]}
         /\ UNCHANGED <<level, scn, krun, keys, kpc, current_list>>

\* Lines 101-153: the child with colouring and Kdim ch is dropped if
\* best_k_dim is greater; otherwise its experimental path is computed.
KChildCompare(popped, ch, g, ord) ==
    IF ch.err # "" THEN KEnd(Panicked(ch.err))
    ELSE IF KdimCmp(best_k_dim, ch.k_dim) > 0
    THEN /\ cur_node' = <<popped>>
         /\ branches' = branches \cup {[c |-> ch.gc, k_dim |-> ch.k_dim]}
         /\ UNCHANGED <<level, scn, krun, keys, kpc, next_list, current_list,
                        best_k_dim, leaf_found>>
    ELSE KChildPush(popped, ch, ExperimentalPath(ch.gc, ch.k_dim, g, ord))

\* Lines 91-160, one iteration: a child is popped, individualized and refined;
\* it is dropped if best_k_dim is greater, otherwise its experimental path is
\* computed down to a leaf and its head is pushed on next_list.
KChild ==
    /\ kpc = "children"
    /\ cur_node[1].children # <<>>
    /\ LET node == cur_node[1]
           g    == scn.gs[krun]
       IN  \E ord \in KeyOrders(g.n) :
             KChildCompare([node EXCEPT !.children = PopRest(node.children)],
                           ChildColouring(node.c, node.target_cell,
                                          PopValue(node.children), g, ord),
                           g, ord)
    /\ UNCHANGED <<pvars, dvars, ovars, cvars>>

\* Line 91: node has no children left; the for loop goes on.
KChildrenEnd ==
    /\ kpc = "children"
    /\ cur_node[1].children = <<>>
    /\ cur_node' = <<>>
    /\ kpc' = "for"
    /\ UNCHANGED <<level, branches, scn, krun, keys, next_list, current_list, best_k_dim, leaf_found>>
    /\ UNCHANGED <<pvars, dvars, ovars, cvars>>

\* Line 71: current_list is exhausted; back to the test of the while loop.
KForEnd ==
    /\ kpc = "for"
    /\ current_list = <<>>
    /\ kpc' = "while"
    /\ UNCHANGED <<level, branches, scn, krun, keys, next_list, current_list, best_k_dim, leaf_found,
                   cur_node>>
    /\ UNCHANGED <<pvars, dvars, ovars, cvars>>

\* Lines 164-175: a leaf was found; the largest descriptor of the entries of
\* next_list is returned.
KFinish ==
    /\ kpc = "while"
    /\ leaf_found
    /\ LET g     == scn.gs[krun]
           descs == [i \in 1..Len(next_list) |-> LeafDescriptor(next_list[i].c, g)]
           bad   == {i \in 1..Len(next_list) : ~descs[i].ok}
       IN  IF next_list = <<>> THEN KEnd(Panicked("index out of bounds: next_list[0]"))
           ELSE IF bad # {} THEN KEnd(Panicked(descs[Min(bad)].diag))
           ELSE KEnd(Returned(BestDescriptor(descs, 2, descs[1].d)))
    /\ UNCHANGED <<pvars, dvars, ovars, cvars>>

KNext ==
    \/ KStart
    \/ KLevel
    \/ KNode
    \/ KChild
    \/ KChildrenEnd
    \/ KForEnd
    \/ KFinish

InitKey == KInit /\ POff /\ DOff /\ OOff /\ COff

SpecKey == InitKey /\ [][KNext]_vars

\* Every graph of the scenario has been keyed.
Done == kpc = "done"

----------------------------------------------------------------------------
(* Notions the claims about the colouring are stated with *)

\* The cells of a colouring as a set of node sets (an empty cell left out).
CellSets(c) == {CellAt(c, i).members : i \in 0..(Len(c.cells) - 1)} \ {{}}

NeighbourCount(gr, u, B) == Cardinality(Neighbors(gr, u) \cap B)

\* P is equitable: all nodes of a cell have the same number of neighbours in
\* each cell.
IsEquitable(gr, P) ==
    \A A \in P : \A B \in P : \A u \in A : \A v \in A :
        NeighbourCount(gr, u, B) = NeighbourCount(gr, v, B)

\* One round of colour refinement: nodes stay together when they are in the
\* same cell of P and have the same number of neighbours in every cell of P.
RefineRound(gr, P) ==
    LET same(u, v) == /\ \E A \in P : u \in A /\ v \in A
                      /\ \A B \in P : NeighbourCount(gr, u, B) = NeighbourCount(gr, v, B)
    IN  {{v \in Nodes(gr) : same(u, v)} : u \in Nodes(gr)}

\* The coarsest equitable refinement of P: the fixed point of the rounds.
RECURSIVE CoarsestEquitable(_, _)
CoarsestEquitable(gr, P) ==
    LET Q == RefineRound(gr, P)
    IN  IF Q = P THEN P ELSE CoarsestEquitable(gr, Q)

\* The image of a colouring under a node permutation: node p[u] takes the
\* place of node u.
PermColouring(c, p) ==
    LET inv(v) == CHOOSE u \in DOMAIN p : p[u] = v
    IN  [size       |-> c.size,
         cells      |-> c.cells,
         store      |-> [i \in DOMAIN c.store |->
                            [color   |-> c.store[i].color,
                             members |-> {p[u] : u \in c.store[i].members}]],
         color_cell |-> c.color_cell,
         node_cell  |-> [v \in DOMAIN c.node_cell |-> c.node_cell[inv(v)]],
         node_color |-> [v \in DOMAIN c.node_color |-> c.node_color[inv(v)]]]

Idle == pc = "idle"

----------------------------------------------------------------------------
(* Claims about refine *)

\* C6: for every reachable colouring, refine returns and leaves exactly the
\* cells of the coarsest equitable refinement of the colouring it was called
\* on; in particular the cells it leaves are equitable.
C6_RefineReachesCoarsestEquitable ==
    Idle =>
        LET r == Refine(colouring, graph, IdOrder(graph.n))
        IN  /\ r.err = ""
            /\ IsEquitable(graph, CellSets(r.c))
            /\ CellSets(r.c) = CoarsestEquitable(graph, CellSets(colouring))

\* C7: for every reachable colouring, a second refine right after a first one
\* returns an empty trace and leaves the colouring as the first one left it.
C7_RefineIdempotent ==
    Idle =>
        LET r1 == Refine(colouring, graph, IdOrder(graph.n))
            r2 == Refine(r1.c, graph, IdOrder(graph.n))
        IN  /\ r2.trace = <<>>
            /\ Normalize(r2.c) = Normalize(r1.c)

\* C8: for every reachable colouring P of a graph G and every node permutation
\* sigma, refine on (sigma(P), sigma(G)) returns the trace refine returns on
\* (P, G) and leaves the sigma-image of the colouring refine leaves on (P, G).
C8_RefineEquivariant ==
    Idle =>
        \A sigma \in Perms(graph.n) :
            LET r  == Refine(colouring, graph, IdOrder(graph.n))
                rs == Refine(PermColouring(colouring, sigma), PermGraph(graph, sigma),
                             IdOrder(graph.n))
            IN  /\ rs.err = r.err
                /\ rs.trace = r.trace
                /\ Normalize(rs.c) = Normalize(PermColouring(r.c, sigma))

\* A refine that split cells twice has returned on a graph of MaxN nodes.
C8_Witness ==
    /\ Idle
    /\ lastop = "refine"
    /\ Len(ret) >= 2
    /\ graph.n = MaxN

\* C9: the trace refine returns and the colouring it leaves do not depend on
\* the order in which the hash containers yield their elements.
C9_RefineOrderIndependent ==
    Idle =>
        \A ord \in Orders(graph.n) :
            LET r  == Refine(colouring, graph, IdOrder(graph.n))
                ro == Refine(colouring, graph, ord)
            IN  /\ ro.err = r.err
                /\ ro.trace = r.trace
                /\ Normalize(ro.c) = Normalize(r.c)

\* A refine that split a cell has returned and left a cell of several nodes.
C9_Witness ==
    /\ Idle
    /\ lastop = "refine"
    /\ ret # <<>>
    /\ ~IsDiscrete(colouring)

----------------------------------------------------------------------------
(* Claims about the invariants of the colouring *)

\* C10 (I1): in every state reached by new, individualize, split_cell, refine
\* and clone, every node of 0..N-1 is a member of exactly one cell of cells.
C10_EveryNodeInExactlyOneCell ==
    \A u \in Nodes(graph) :
        Cardinality({i \in 0..(Len(colouring.cells) - 1) :
                        u \in CellAt(colouring, i).members}) = 1

\* Cells were split by split_cell, by individualize or inside refine.
C10_Witness ==
    /\ Len(colouring.cells) >= 3
    /\ lastop \in {"split_cell", "individualize", "refine"}
    /\ graph.n = MaxN

\* C11 (I2, I3): in every state reached by new, individualize, split_cell,
\* refine and clone, the colour map sends the colour of every cell to that
\* cell and has no other entry, every member of a cell has the cell's colour in
\* node_color and the cell in node_cell, and distinct cells have distinct
\* colours.
C11_IndexMapsAgreeWithCells ==
    LET idxs == 0..(Len(colouring.cells) - 1)
    IN  /\ \A k \in idxs :
              LET cell == CellAt(colouring, k)
              IN  /\ cell.color \in DOMAIN colouring.color_cell
                  /\ colouring.color_cell[cell.color] = colouring.cells[k + 1]
                  /\ \A n \in cell.members :
                        /\ colouring.node_color[n] = cell.color
                        /\ colouring.node_cell[n] = colouring.cells[k + 1]
        /\ DOMAIN colouring.color_cell = {CellAt(colouring, k).color : k \in idxs}
        /\ \A k1 \in idxs : \A k2 \in idxs :
              CellAt(colouring, k1).color = CellAt(colouring, k2).color => k1 = k2

\* A colouring of several cells, some with several members, was cloned.
C11_Witness ==
    /\ Idle
    /\ lastop = "clone"
    /\ Len(colouring.cells) >= 3
    /\ ~IsDiscrete(colouring)
    /\ graph.n = MaxN

\* C12 (I4, I5): in every state reached by new, individualize, split_cell,
\* refine and clone, on graphs of any number of nodes (0 included), no cell is
\* empty, and is_discrete is true exactly when every cell has one member.
C12_NoEmptyCellAndDiscreteIffSingletons ==
    LET idxs == 0..(Len(colouring.cells) - 1)
    IN  /\ \A k \in idxs : CellAt(colouring, k).members # {}
        /\ IsDiscrete(colouring) <=>
              \A k \in idxs : Cardinality(CellAt(colouring, k).members) = 1

\* C13: on every graph and every reachable colouring refine returns without
\* aborting: no colour it looks up is missing and get_color_index returns;
\* inside refine the cell count never exceeds N, and every iteration of the
\* main loop either leaves the colouring as it is and shortens the worklist, or
\* increases the cell count.
C13_RefineIsTotal ==
    /\ [](refine_err = "" /\ (lastop = "refine" => pc # "aborted"))
    /\ [](pc = "refine" => GetCellCount(colouring) <= graph.n)
    /\ [][(pc = "refine" /\ pc' = "refine") =>
            \/ GetCellCount(colouring') > GetCellCount(colouring)
            \/ /\ colouring' = colouring
               /\ Len(uncounted_colors') < Len(uncounted_colors)]_vars

\* A public operation was called with its precondition violated.
Misused ==
    lastop \in {"individualize on a singleton cell",
                "split_cell with an empty or full subset",
                "select_cell_v1 on a discrete colouring"}

\* C15: individualize on a singleton cell, split_cell with an empty subset or
\* with the whole cell, and select_cell_v1 on a discrete colouring abort; none
\* of them returns.
C15_PreconditionViolationsAbort == Misused => pc = "aborted"

\* The index in c of the cell that a call split: the one cell of c whose set
\* of members is the set of no cell of d.
SplitIdx(c, d) ==
    CHOOSE k \in 0..(Len(c.cells) - 1) :
        \A j \in 0..(Len(d.cells) - 1) : CellAt(d, j).members # CellAt(c, k).members

\* The index in d of the cell the call created: it holds members of the cell
\* that was split and has the colour that cell had (lines 189-192, 228-231).
NewCellIdx(c, d) ==
    CHOOSE j \in 0..(Len(d.cells) - 1) :
        /\ CellAt(d, j).color = CellAt(c, SplitIdx(c, d)).color
        /\ CellAt(d, j).members \subseteq CellAt(c, SplitIdx(c, d)).members

\* A call of individualize or split_cell has returned.
SplitStep ==
    /\ pc = "idle"
    /\ pc' = "idle"
    /\ lastop' \in {"individualize", "split_cell"}
    /\ GetCellCount(colouring') = GetCellCount(colouring) + 1

\* C20: individualize and split_cell put the cell they create at the end of
\* cells, and every cell that existed before the call keeps its index.
C20_NewCellAppended ==
    [][SplitStep =>
         /\ NewCellIdx(colouring, colouring') = Len(colouring'.cells) - 1
         /\ \A i \in 0..(Len(colouring.cells) - 1) :
               /\ CellAt(colouring', i).members \subseteq CellAt(colouring, i).members
               /\ i # SplitIdx(colouring, colouring') =>
                     CellAt(colouring', i) = CellAt(colouring, i)]_vars

\* C20 as amended: the cell created is inserted at cell_idx, the index of the
\* cell that is split; the cells before it keep their index, the cell that is
\* split and the cells after it move up by one.
C20_NewCellInsertedAtCellIdx ==
    [][SplitStep =>
         LET k == SplitIdx(colouring, colouring')
         IN  /\ NewCellIdx(colouring, colouring') = k
             /\ \A i \in 0..(Len(colouring.cells) - 1) :
                   IF i < k THEN CellAt(colouring', i) = CellAt(colouring, i)
                   ELSE IF i > k THEN CellAt(colouring', i + 1) = CellAt(colouring, i)
                   ELSE /\ CellAt(colouring', k + 1).members =
                             CellAt(colouring, k).members \ CellAt(colouring', k).members
                        /\ CellAt(colouring', k + 1).color =
                             CellAt(colouring, k).color
                               + Cardinality(CellAt(colouring', k).members)]_vars

\* A member of a cell that is not the last one was individualized: the new
\* cell has at least two cells after it.
C20_Witness ==
    /\ pc = "idle"
    /\ lastop = "individualize"
    /\ ret # <<>>
    /\ (ret[1] - 1) \in DOMAIN colouring.color_cell
    /\ \E i \in 1..Len(colouring.cells) :
          /\ colouring.cells[i] = colouring.color_cell[ret[1] - 1]
          /\ i + 2 <= Len(colouring.cells)

\* The entries of split_log written by the split loop of refine.
SplitEntries == {i \in 1..Len(split_log) : split_log[i].kind = "split"}

\* C21: for every split made inside refine, the colour pushed on the heap is
\* the colour appended to the trace, and it is the new colour of the cell that
\* was split, c0 + |bucket|.
C21_SplitPushesWhatItTraces ==
    \A i \in SplitEntries :
        /\ split_log[i].pushed = split_log[i].traced
        /\ split_log[i].traced = split_log[i].c0 + split_log[i].size

\* C21 as amended: the colour pushed on the heap is the colour of the cell
\* split off, which is c0, the colour the cell had before the split; the
\* colour appended to the trace is the new colour of the cell that was split,
\* c0 + |bucket|.
C21_SplitPushesNewCellTracesOldCell ==
    \A i \in SplitEntries :
        /\ split_log[i].pushed = split_log[i].c0
        /\ split_log[i].traced = split_log[i].c0 + split_log[i].size
        /\ split_log[i].size >= 1

\* refine has split one cell into three buckets, and a bucket of two nodes
\* off a cell whose colour was not 0.
C21_Witness ==
    /\ pc = "refine"
    /\ \E i \in SplitEntries : split_log[i].size >= 2 /\ split_log[i].c0 > 0
    /\ \E i \in SplitEntries : (i + 1) \in SplitEntries

\* The entries of split_log written after the split loop, one per cell split.
ResidualEntries == {j \in 1..Len(split_log) : split_log[j].kind = "residual"}

\* The splits of the cell whose residual is entry j: the entries of the split
\* loop that ran just before it.
SplitsOf(j) ==
    {i \in SplitEntries : i < j /\ \A m \in i..(j - 1) : split_log[m].kind = "split"}

\* C22: when refine splits a cell into two or more buckets, the colour the
\* residual (the bucket of the largest degree) holds after all the splits of
\* the cell is none of the entries these splits appended to the trace.
C22_ResidualNotTraced ==
    \A j \in ResidualEntries :
        \A i \in SplitsOf(j) : split_log[i].traced # split_log[j].c0

\* C22 as amended: the trace gets one entry per split and none for the
\* residual; the entry of the last split of a cell is the colour the residual
\* holds after all the splits of the cell, the entries of the earlier splits
\* of the cell are smaller.
C22_ResidualColourIsLastTraced ==
    /\ Len(cur_trace) = Cardinality(SplitEntries)
    /\ \A i \in SplitEntries :
          cur_trace[Cardinality({m \in SplitEntries : m <= i})] = split_log[i].traced
    /\ \A j \in ResidualEntries :
          /\ (j - 1) \in SplitsOf(j)
          /\ split_log[j - 1].traced = split_log[j].c0
          /\ \A i \in SplitsOf(j) \ {j - 1} : split_log[i].traced < split_log[j].c0

\* refine has split a cell into three buckets and a cell into two, and one
\* residual is a single node.
C22_Witness ==
    /\ pc = "refine"
    /\ \E j \in ResidualEntries : Cardinality(SplitsOf(j)) = 2
    /\ \E j \in ResidualEntries : split_log[j].pushed = -1

\* The cells of a colouring as a set of [color, members].
CellRecords(c) == {CellAt(c, i) : i \in 0..(Len(c.cells) - 1)}

\* The maps of c are those of its cells: color_cell sends the colour of each
\* cell to it, node_cell and node_color send each node to its cell and colour.
MapsFollowCells(c) ==
    /\ DOMAIN c.color_cell = {r.color : r \in CellRecords(c)}
    /\ \A i \in 0..(Len(c.cells) - 1) :
          /\ c.color_cell[CellAt(c, i).color] = c.cells[i + 1]
          /\ \A u \in CellAt(c, i).members :
                /\ c.node_cell[u] = c.cells[i + 1]
                /\ c.node_color[u] = CellAt(c, i).color

NodesBefore(c, i) == Cardinality(UNION {CellAt(c, j).members : j \in 0..(i - 1)})

\* C26: in every colouring reached from Colouring::new by individualize,
\* split_cell (preconditions met) and refine, the colours of cells increase
\* strictly, the colour of a cell is the number of nodes in the cells before
\* it, every colour is in 0..N-1, get_color_index finds every colour at its
\* index, and node_color of a discrete colouring is a bijection onto 0..N-1.
C26_ColourEqualsPosition ==
    LET c == colouring
        n == Len(c.cells)
    IN  /\ \A i \in 0..(n - 2) : CellAt(c, i).color < CellAt(c, i + 1).color
        /\ \A i \in 0..(n - 1) :
              /\ CellAt(c, i).color = NodesBefore(c, i)
              /\ CellAt(c, i).color \in 0..(c.size - 1)
              /\ GetColorIndex(c, CellAt(c, i).color) = i
        /\ IsDiscrete(c) =>
              /\ {c.node_color[u] : u \in DOMAIN c.node_color} = 0..(c.size - 1)
              /\ \A u, v \in DOMAIN c.node_color :
                    c.node_color[u] = c.node_color[v] => u = v

----------------------------------------------------------------------------
(* Claims about the order of Kdim *)

\* s comes before t in the lexicographic order: s is a proper prefix of t, or
\* s is smaller at the first place where they differ.
TraceLexLess(s, t) ==
    \E k \in 0..Len(s) :
        /\ k <= Len(t)
        /\ \A m \in 1..k : s[m] = t[m]
        /\ \/ k = Len(s) /\ k < Len(t)
           \/ k < Len(s) /\ k < Len(t) /\ s[k + 1] < t[k + 1]

\* a is greater than b: it has more cells or, with as many cells, the
\* lexicographically smaller trace.
KdimGreater(a, b) == a[1] > b[1] \/ (a[1] = b[1] /\ TraceLexLess(a[2], b[2]))

\* C24: cmp is a total order in which the Kdim with more cells is greater
\* and, of two Kdims with as many cells, the one with the lexicographically
\* smaller trace is greater; cmp returns Equal exactly when the Kdims are ==,
\* that is have the same cell count and the same trace; and Kdim (0, []) is
\* less than every Kdim with a cell.
C24_KdimOrdering ==
    opc = "compared" =>
        /\ \A i, j \in 1..3 :
              /\ ocmp.cmp[i][j] \in {-1, 0, 1}
              /\ ocmp.cmp[i][j] = 1 <=> KdimGreater(okdims[i], okdims[j])
              /\ ocmp.cmp[i][j] = -1 <=> KdimGreater(okdims[j], okdims[i])
              /\ ocmp.cmp[i][j] = 0 <=> ocmp.eq[i][j]
              /\ ocmp.eq[i][j] <=> okdims[i] = okdims[j]
              /\ ocmp.cmp[i][j] = 0 - ocmp.cmp[j][i]
        /\ \A i, j, k \in 1..3 :
              (ocmp.cmp[i][j] >= 0 /\ ocmp.cmp[j][k] >= 0) => ocmp.cmp[i][k] >= 0
        /\ \A i \in 1..3 : okdims[i][1] >= 1 => ocmp.init[i] = -1

\* Two Kdims with as many cells, the trace of the first a proper prefix of
\* the trace of the second, and a third Kdim with more cells.
C24_Witness ==
    /\ opc = "compared"
    /\ okdims[1][1] = okdims[2][1]
    /\ Len(okdims[1][2]) < Len(okdims[2][2])
    /\ ocmp.cmp[1][2] = 1
    /\ ocmp.cmp[2][3] = -1
    /\ okdims[3][1] > okdims[1][1]
    /\ okdims[1][2] # <<>>

----------------------------------------------------------------------------
(* Claims about clone *)

\* The partition a Colouring holds, whatever the Rc's it is made of: its
\* cells in order with their colours and members, and the cell each colour
\* and each node is mapped to, as an index of cells.
Partition(f, hp) == Normalize(InHeap(f, hp))

\* C25: clone() returns a partition with the same cells in the same order,
\* the same colours and the same maps; a later individualize, split_cell or
\* refine on the clone leaves the partition of the original as it was, and
\* one on the original leaves the partition of the clone as it was.
C25_CloneIndependent ==
    [][/\ (cpc = "new" /\ cpc' = "cloned") =>
             /\ Partition(copy', heap') = Partition(orig, heap)
             /\ Partition(orig', heap') = Partition(orig, heap)
       /\ (cpc = "cloned" /\ cop' = "call on the clone") =>
             Partition(orig', heap') = Partition(orig, heap)
       /\ (cpc = "cloned" /\ cop' = "call on the original") =>
             Partition(copy', heap') = Partition(copy, heap)]_vars

\* A colouring of several cells was cloned, and calls were made on the clone
\* and on the original that left them different.
C25_Witness ==
    /\ cpc = "cloned"
    /\ cop = "call on the original"
    /\ Len(orig.cells) >= 2
    /\ Len(copy.cells) >= 3
    /\ Partition(orig, heap).node_color # Partition(copy, heap).node_color

----------------------------------------------------------------------------
(* Claims about the key *)

\* petgraph::algo::is_isomorphic, as tests::is_isomorphic_test uses it: some
\* bijection of the nodes maps the edges of g onto the edges of h.
Isomorphic(g, h) == g.n = h.n /\ \E perm \in Perms(g.n) : PermGraph(g, perm) = h

OneNode == [n |-> 1, e |-> {}]

TwoNodesOneEdge == [n |-> 2, e |-> {{0, 1}}]

\* C1: for every graph with at least one node and every permutation of its
\* nodes, GraphKey::new returns on the graph and on the permuted graph, and
\* the two keys are equal.
C1_KeyPermutationInvariant ==
    scn.kind = "relabel" =>
        \A i \in {1, 3} :
            (i + 1 <= Len(keys) /\ scn.gs[i].n >= 1) =>
                /\ keys[i].ok
                /\ keys[i + 1].ok
                /\ keys[i].key = keys[i + 1].key

\* C2: two graphs for which GraphKey::new returns equal keys are isomorphic;
\* and the keys of a graph, of a relabelling of it, of the graph with one edge
\* changed and of a relabelling of that are exactly two different keys.
C2_KeyEqualityImpliesIsomorphism ==
    Done =>
        /\ scn.kind = "pair" =>
              ((keys[1].ok /\ keys[2].ok /\ keys[1].key = keys[2].key)
                  => Isomorphic(scn.gs[1], scn.gs[2]))
        /\ (scn.kind = "relabel" /\ Len(scn.gs) = 4) =>
              /\ \A i \in 1..4 : keys[i].ok
              /\ Cardinality({keys[i].key : i \in 1..4}) = 2

\* C4: GraphKey::new returns [1] on the graph with one node and [2, 1, 2] on
\* the graph with two nodes and one edge, however its two nodes are labelled.
C4_SmallFixedResults ==
    \A i \in 1..Len(keys) :
        /\ scn.gs[i] = OneNode => keys[i] = Returned(<<1>>)
        /\ scn.gs[i] = TwoNodesOneEdge => keys[i] = Returned(<<2, 1, 2>>)

\* The two-node graph with one edge and its relabelling by the swap of the two
\* nodes have both been keyed.
C4_Witness ==
    /\ Done
    /\ scn.kind = "relabel"
    /\ scn.gs[1] = TwoNodesOneEdge
    /\ scn.gs[2] = PermGraph(TwoNodesOneEdge, [i \in 0..1 |-> 1 - i])
    /\ keys[1].key = <<2, 1, 2>>
    /\ keys[2].key = <<2, 1, 2>>

\* C5: GraphKey::new on the graph with no node returns the empty sequence; it
\* does not abort.
C5_EmptyGraphReturnsEmptySequence ==
    \A i \in 1..Len(keys) : scn.gs[i].n = 0 => keys[i] = Returned(<<>>)

----------------------------------------------------------------------------
(* Claims about the descriptor *)

\* C3: two relabelled graphs on the same node set 0..N-1 (N >= 1) with equal
\* descriptors have the same edge set; so for two discrete colourings of one
\* graph, equal descriptors mean identical relabelled graphs.
C3_DescriptorInjective ==
    dpc = "described" =>
        (ddescs[1].d = ddescs[2].d => dlabelled[1].g = dlabelled[2].g)

\* Two different discrete colourings of a graph with edges were described and
\* the descriptors are equal.
C3_Witness ==
    /\ dpc = "described"
    /\ dgraphs[1] = dgraphs[2]
    /\ dgraphs[1].e # {}
    /\ dgraphs[1].n = MaxDescN
    /\ dparts[1] # dparts[2]
    /\ ddescs[1].d = ddescs[2].d

\* What is left to do inside one level of the search: the nodes the for loop
\* has not taken, then the children of the node it has taken.
LevelWork ==
    IF kpc = "while" THEN 0
    ELSE 1 + (2 * Len(current_list) + (IF kpc = "children" THEN 1 ELSE 0))
                * (scn.gs[krun].n + 1)
           + (IF kpc = "children" THEN Len(cur_node[1].children) ELSE 0)

\* The guards of the steps of GraphKey::new: at every position of the code
\* one of them holds.
HasNextStep ==
    \/ kpc = "start" /\ krun <= Len(scn.gs)
    \/ kpc = "while"
    \/ kpc = "for"
    \/ kpc = "children" /\ cur_node # <<>>

\* C14: on every graph GraphKey::new returns or aborts after finitely many
\* steps: it always has a next step until it has ended, every step inside a
\* level reduces the work left in the level, and the body of the while loop
\* is entered fewer than N times.  The frontier next_list is not empty when
\* the while loop is tested, and every node put on the frontier has more cells
\* than the frontier node it descends from.
C14_SearchTerminates ==
    /\ [](Done \/ HasNextStep)
    /\ [](kpc = "while" => next_list # <<>>)
    /\ [](kpc \in {"while", "for", "children"} => level < scn.gs[krun].n)
    /\ [][(kpc \in {"for", "children"} /\ krun' = krun /\ level' = level) =>
            LevelWork' < LevelWork]_vars
    /\ [][(kpc \in {"for", "children"} /\ next_list' # next_list /\ next_list' # <<>>) =>
            GetCellCount(next_list'[Len(next_list')].c) >
                GetCellCount((IF kpc = "for" THEN Head(current_list) ELSE cur_node[1]).c)]_vars

\* A graph whose search takes two levels has been keyed.
C14_Witness ==
    /\ kpc = "while"
    /\ leaf_found
    /\ level = 2
    /\ Len(next_list) >= 2

\* C16: when the for loop takes a node that carries a son in its experimental
\* path, the son is appended to next_list, replaces it, or is dropped according
\* to the comparison of best_k_dim with the son's own Kdim (the cell count and
\* trace of the son's colouring, kept in the son's son_k_dim).
C16_SonFilteredByOwnKdim ==
    [][(kpc = "for" /\ current_list # <<>> /\ Head(current_list).son_in_exp_path # <<>>) =>
          LET b   == Head(current_list).son_in_exp_path[1]
              own == b.son_k_dim[1]
          IN  /\ own[1] = GetCellCount(b.c)
              /\ next_list' = IF KdimCmp(own, best_k_dim) = 0 THEN Append(next_list, b)
                              ELSE IF KdimCmp(own, best_k_dim) > 0 THEN <<b>>
                              ELSE next_list]_vars

Retained == {[c |-> next_list[i].c, k_dim |-> next_list[i].son_k_dim[1]] :
               i \in 1..Len(next_list)}

\* The children met in this level whose Kdim is the largest of the level.
BestBranches == {b \in branches : \A o \in branches : KdimCmp(b.k_dim, o.k_dim) >= 0}

\* C18: at the end of every level the entries of next_list are exactly the
\* children of the nodes of the level (the sons already attached included)
\* whose own Kdim is the largest over all those children; so all the entries
\* have the same Kdim.
C18_PruningKeepsExactlyTheBest ==
    (kpc = "while" /\ level >= 1) =>
        /\ \A i \in 1..Len(next_list) : next_list[i].son_k_dim # <<>>
        /\ Retained = BestBranches
        /\ \A a, b \in Retained : KdimEq(a.k_dim, b.k_dim)

Max(S) == CHOOSE x \in S : \A y \in S : x >= y

\* The members of the target cell of a tree node.
TargetMembers(node) == CellAt(node.c, node.target_cell).members

\* The member of node's target cell that was individualized to get the
\* colouring cc: individualize leaves it alone with the colour of the cell.
FirstChosen(node, cc) ==
    {x \in TargetMembers(node) :
        cc.node_color[x] = CellAt(node.c, node.target_cell).color}

\* The tree nodes the search holds: the frontier, the node in the for loop,
\* and the sons hanging below them in their experimental paths.
RECURSIVE Chain(_)
Chain(node) ==
    {node} \cup (IF node.son_in_exp_path = <<>> THEN {}
                 ELSE Chain(node.son_in_exp_path[1]))

HeldNodes ==
    UNION ({Chain(next_list[i]) : i \in 1..Len(next_list)}
           \cup {Chain(current_list[i]) : i \in 1..Len(current_list)}
           \cup {Chain(cur_node[i]) : i \in 1..Len(cur_node)})

\* C19: in every tree node the members of the target cell are individualized
\* in descending order of node index: the son in the experimental path comes
\* from the largest member, and every member already taken is larger than
\* every member still in children.
C19_ChildrenDescending ==
    \A node \in HeldNodes :
        /\ node.son_in_exp_path # <<>> =>
              FirstChosen(node, node.son_in_exp_path[1].c) = {Max(TargetMembers(node))}
        /\ \A x \in TargetMembers(node) \ Range(node.children) :
              \A y \in Range(node.children) : x > y

\* C19 as amended: the members of the target cell are individualized in
\* ascending order of node index (children is sorted in descending order and
\* popped from its end).
C19_ChildrenAscending ==
    \A node \in HeldNodes :
        /\ node.son_in_exp_path # <<>> =>
              FirstChosen(node, node.son_in_exp_path[1].c) = {Min(TargetMembers(node))}
        /\ \A x \in TargetMembers(node) \ Range(node.children) :
              \A y \in Range(node.children) : x < y
        /\ node.children = SortDesc(node.children)

C19_Witness ==
    /\ kpc = "children"
    /\ Len(cur_node[1].children) = 1
    /\ Cardinality(TargetMembers(cur_node[1])) >= 3
    /\ \E i \in 1..Len(next_list) :
          /\ next_list[i].son_in_exp_path # <<>>
          /\ Len(next_list[i].children) >= 1

====
